---------------------------- MODULE Spec2Model ----------------------------
(***************************************************************************)
(* PitchScore (src/pitch_score_web_app_mvp_react.jsx): the mock scoring    *)
(* function mockScoreRequest with its helpers hashScore and                *)
(* pickGenresFromText, and the App component's form state and submit       *)
(* handler.                                                                *)
(*                                                                         *)
(* Strings are sequences of UTF-16 code units, as str.charCodeAt(i) reads  *)
(* them.  Real numbers are exact fixed-point integers in units of 1/Unit.  *)
(* 32-bit values are kept as two 16-bit limbs, so every intermediate value *)
(* stays inside the signed 32-bit range and wraps as the code does.        *)
(***************************************************************************)
EXTENDS Integers, Sequences, FiniteSets, TLC

\* ------------------------------------------------------------------------
\* Numbers
\* ------------------------------------------------------------------------

\* 1.0 in fixed point.  Every quantity the function derives from the hash,
\* the genre table and a budget that is a multiple of BudgetStep is an exact
\* multiple of 1/Unit.
Unit == 2400000

\* step={100000} of the budget input: budgets are multiples of it.
BudgetStep == 100000

Limb == 65536

Min(a, b) == IF a <= b THEN a ELSE b
Max(a, b) == IF a >= b THEN a ELSE b
Abs(a) == IF a >= 0 THEN a ELSE -a

\* JavaScript's % on integers: the remainder takes the sign of the dividend.
JSRem(a, n) == IF a >= 0 THEN a % n ELSE -((-a) % n)

\* ------------------------------------------------------------------------
\* hashScore: h = (h * 31 + str.charCodeAt(i)) >>> 0 over the string
\* ------------------------------------------------------------------------

\* One round of the loop body on a 32-bit unsigned value [hi, lo].
hashStep(h, c) ==
  LET lo == h.lo * 31 + c
      hi == h.hi * 31 + (lo \div Limb)
  IN  [hi |-> hi % Limb, lo |-> lo % Limb]

\* The loop body applied for i = first..last in order, starting from h.  The
\* range is split in halves, and the first half's value is demanded before
\* the second half starts, only to keep the evaluation shallow.
RECURSIVE hashRange(_, _, _, _)
hashRange(str, first, last, h) ==
  IF first > last THEN h
  ELSE IF first = last THEN hashStep(h, str[first])
  ELSE LET mid == (first + last) \div 2
           left == hashRange(str, first, mid, h)
       IN  IF left.hi >= 0 THEN hashRange(str, mid + 1, last, left)
           ELSE left

hashScore(str) == hashRange(str, 1, Len(str), [hi |-> 0, lo |-> 0])

\* h % n for the unsigned 32-bit h (a Number, so % sees its unsigned value).
UnsignedRem(h, n) == ((h.hi % n) * (Limb % n) + h.lo) % n

\* ToInt32: the value the operator >> sees.
ToInt32(h) ==
  IF h.hi >= 32768 THEN (h.hi - Limb) * Limb + h.lo ELSE h.hi * Limb + h.lo

\* h >> n: sign-propagating shift of ToInt32(h), 1 <= n <= 31.
SignedShiftRight(h, n) ==
  LET v == ToInt32(h)
      p == 2 ^ n
  IN  IF v >= 0 THEN v \div p ELSE -(((-(v + 1)) \div p) + 1)

\* (h >> n) % m as the code writes it.
ShiftRem(h, n, m) == JSRem(SignedShiftRight(h, n), m)

\* ------------------------------------------------------------------------
\* Strings of the program
\* ------------------------------------------------------------------------

\* GENRES, by identifier; GenreName gives the label's code units.
GENRES == <<"Accion", "Aventura", "Comedia", "Drama", "Romance", "Terror",
            "SciFi", "Thriller", "Fantasia", "Animacion">>

GenreName(g) ==
  CASE g = "Accion"    -> <<65, 99, 99, 105, 243, 110>>
    [] g = "Aventura"  -> <<65, 118, 101, 110, 116, 117, 114, 97>>
    [] g = "Comedia"   -> <<67, 111, 109, 101, 100, 105, 97>>
    [] g = "Drama"     -> <<68, 114, 97, 109, 97>>
    [] g = "Romance"   -> <<82, 111, 109, 97, 110, 99, 101>>
    [] g = "Terror"    -> <<84, 101, 114, 114, 111, 114>>
    [] g = "SciFi"     -> <<83, 99, 105, 8209, 70, 105>>
    [] g = "Thriller"  -> <<84, 104, 114, 105, 108, 108, 101, 114>>
    [] g = "Fantasia"  -> <<70, 97, 110, 116, 97, 115, 105, 97>>
    [] g = "Animacion" -> <<65, 110, 105, 109, 97, 99, 105, 243, 110>>

\* TONES and RATINGS the model uses, by identifier; "" is the empty option.
TONES == <<"epico", "oscuro">>
RATINGS == <<"PG-13", "R">>

LabelName(s) ==
  CASE s = "epico"  -> <<233, 112, 105, 99, 111>>
    [] s = "oscuro" -> <<111, 115, 99, 117, 114, 111>>
    [] s = "PG-13"  -> <<80, 71, 45, 49, 51>>
    [] s = "R"      -> <<82>>
    [] s = ""       -> <<>>

\* KEYMAP: for each entry the alternatives of its pattern, in order, and
\* its genre.  All patterns carry the flags g and i.
KEYMAP == <<
  \* /space|nave|planeta|robot|ia|inteligencia artificial|futuro|alien/gi
  [g |-> "SciFi", k |-> <<
      <<115, 112, 97, 99, 101>>,
      <<110, 97, 118, 101>>,
      <<112, 108, 97, 110, 101, 116, 97>>,
      <<114, 111, 98, 111, 116>>,
      <<105, 97>>,
      <<105, 110, 116, 101, 108, 105, 103, 101, 110, 99, 105, 97, 32,
        97, 114, 116, 105, 102, 105, 99, 105, 97, 108>>,
      <<102, 117, 116, 117, 114, 111>>,
      <<97, 108, 105, 101, 110>>>>],
  \* /crimen|asesin|investigaci|misterio|conspiraci|persecuci/gi
  [g |-> "Thriller", k |-> <<
      <<99, 114, 105, 109, 101, 110>>,
      <<97, 115, 101, 115, 105, 110>>,
      <<105, 110, 118, 101, 115, 116, 105, 103, 97, 99, 105>>,
      <<109, 105, 115, 116, 101, 114, 105, 111>>,
      <<99, 111, 110, 115, 112, 105, 114, 97, 99, 105>>,
      <<112, 101, 114, 115, 101, 99, 117, 99, 105>>>>],
  \* /risa|chiste|comedia|humor|torpe|situaci/gi
  [g |-> "Comedia", k |-> <<
      <<114, 105, 115, 97>>,
      <<99, 104, 105, 115, 116, 101>>,
      <<99, 111, 109, 101, 100, 105, 97>>,
      <<104, 117, 109, 111, 114>>,
      <<116, 111, 114, 112, 101>>,
      <<115, 105, 116, 117, 97, 99, 105>>>>],
  \* /amor|relaci|pareja|romance|coraz/gi
  [g |-> "Romance", k |-> <<
      <<97, 109, 111, 114>>,
      <<114, 101, 108, 97, 99, 105>>,
      <<112, 97, 114, 101, 106, 97>>,
      <<114, 111, 109, 97, 110, 99, 101>>,
      <<99, 111, 114, 97, 122>>>>],
  \* /magia|reino|hechic|drag|fantas/gi
  [g |-> "Fantasia", k |-> <<
      <<109, 97, 103, 105, 97>>,
      <<114, 101, 105, 110, 111>>,
      <<104, 101, 99, 104, 105, 99>>,
      <<100, 114, 97, 103>>,
      <<102, 97, 110, 116, 97, 115>>>>],
  \* /miedo|fantasma|demon|pose|slasher|terror/gi
  [g |-> "Terror", k |-> <<
      <<109, 105, 101, 100, 111>>,
      <<102, 97, 110, 116, 97, 115, 109, 97>>,
      <<100, 101, 109, 111, 110>>,
      <<112, 111, 115, 101>>,
      <<115, 108, 97, 115, 104, 101, 114>>,
      <<116, 101, 114, 114, 111, 114>>>>],
  \* /batalla|guerra|rebel|conflicto|misión|acción/gi
  [g |-> "Accion", k |-> <<
      <<98, 97, 116, 97, 108, 108, 97>>,
      <<103, 117, 101, 114, 114, 97>>,
      <<114, 101, 98, 101, 108>>,
      <<99, 111, 110, 102, 108, 105, 99, 116, 111>>,
      <<109, 105, 115, 105, 243, 110>>,
      <<97, 99, 99, 105, 243, 110>>>>],
  \* /viaje|búsqueda|tesoro|aventur/gi
  [g |-> "Aventura", k |-> <<
      <<118, 105, 97, 106, 101>>,
      <<98, 250, 115, 113, 117, 101, 100, 97>>,
      <<116, 101, 115, 111, 114, 111>>,
      <<97, 118, 101, 110, 116, 117, 114>>>>],
  \* /animaci|dibujo|stop motion/gi
  [g |-> "Animacion", k |-> <<
      <<97, 110, 105, 109, 97, 99, 105>>,
      <<100, 105, 98, 117, 106, 111>>,
      <<115, 116, 111, 112, 32, 109, 111, 116, 105, 111, 110>>>>],
  \* /drama|familia|superar|enfermedad|duelo/gi
  [g |-> "Drama", k |-> <<
      <<100, 114, 97, 109, 97>>,
      <<102, 97, 109, 105, 108, 105, 97>>,
      <<115, 117, 112, 101, 114, 97, 114>>,
      <<101, 110, 102, 101, 114, 109, 101, 100, 97, 100>>,
      <<100, 117, 101, 108, 111>>>>] >>

\* /(space|batalla|drag|epic|guerra)/i, the pattern of the budget default.
EpicPattern == <<
      <<115, 112, 97, 99, 101>>,
      <<98, 97, 116, 97, 108, 108, 97>>,
      <<100, 114, 97, 103>>,
      <<101, 112, 105, 99>>,
      <<103, 117, 101, 114, 114, 97>>>>

\* ------------------------------------------------------------------------
\* Pattern matching
\* ------------------------------------------------------------------------

\* Canonicalize of the i flag: the code unit's upper case (ASCII, Latin-1).
Canon(c) ==
  IF (c >= 97 /\ c <= 122) \/ (c >= 224 /\ c <= 254 /\ c # 247)
  THEN c - 32 ELSE c

CanonString(str) == [i \in 1..Len(str) |-> Canon(str[i])]

CanonAlternatives(alts) == [a \in 1..Len(alts) |-> CanonString(alts[a])]

\* Alternative alt matches text at 1-based position p (both canonicalized).
MatchAt(text, p, alt) ==
  /\ text[p] = alt[1]
  /\ p + Len(alt) - 1 <= Len(text)
  /\ \A j \in 2..Len(alt) : text[p + j - 1] = alt[j]

\* The first alternative of alts that matches at p (0: none does).
AltAt(text, p, alts) ==
  IF \E a \in 1..Len(alts) : MatchAt(text, p, alts[a])
  THEN CHOOSE a \in 1..Len(alts) :
         /\ MatchAt(text, p, alts[a])
         /\ \A b \in 1..(a - 1) : ~MatchAt(text, p, alts[b])
  ELSE 0

\* The 1-based positions of text where alts matches.
MatchPositions(text, alts) ==
  {q \in 1..Len(text) : \E a \in 1..Len(alts) : MatchAt(text, q, alts[a])}

\* The first position >= p of the set M of positions (0: none).
FindFrom(M, p) ==
  IF \E q \in M : q >= p
  THEN CHOOSE q \in M : q >= p /\ \A r \in M : r >= p => q <= r
  ELSE 0

\* The number of successive matches of alts in text from position p on:
\* each search resumes where the previous match ended.
RECURSIVE CountFrom(_, _, _, _)
CountFrom(text, p, alts, M) ==
  LET q == FindFrom(M, p)
  IN  IF q = 0 THEN 0
      ELSE 1 + CountFrom(text, q + Len(alts[AltAt(text, q, alts)]), alts, M)

\* regex.test(str) for a pattern without the g flag.
RegExpTest(str, pattern) ==
  MatchPositions(CanonString(str), CanonAlternatives(pattern)) # {}

\* regex.exec(str) once on a pattern with the g flag: the search starts at
\* the pattern's lastIndex and leaves lastIndex after the match, or at 0
\* when there is none.  m.length is 1 for a pattern without groups.
ExecOnce(str, pattern, lastIndex) ==
  LET text == CanonString(str)
      alts == CanonAlternatives(pattern)
      q == FindFrom(MatchPositions(text, alts), lastIndex + 1)
  IN  IF q = 0 THEN [n |-> 0, lastIndex |-> 0]
      ELSE [n |-> 1,
            lastIndex |-> q - 1 + Len(alts[AltAt(text, q, alts)])]

\* A variant of text.match(k) that calls k.exec(text) once and does not
\* reset lastIndex.
StringMatch_execOnce(str, pattern, lastIndex) ==
  ExecOnce(str, pattern, lastIndex)

\* text.match(k) for a pattern with the g flag: lastIndex is set to 0, every
\* match is collected, and the failing last search leaves lastIndex at 0.
\* n is m.length, 0 when m is null.
StringMatch(str, pattern, lastIndex) ==
  LET text == CanonString(str)
      alts == CanonAlternatives(pattern)
  IN  [n |-> CountFrom(text, 1, alts, MatchPositions(text, alts)),
       lastIndex |-> 0]

\* ------------------------------------------------------------------------
\* Array.prototype.sort, slice, join
\* ------------------------------------------------------------------------

\* seq.sort((a, b) => key(b) - key(a)), key[i] being the comparator's key of
\* seq[i]: descending by key, and stable, so elements of equal key keep
\* their order.
SortDescending(seq, key) ==
  LET n == Len(seq)
      rank == [i \in 1..n |->
                 Cardinality({j \in 1..n : key[j] > key[i]})
                 + Cardinality({j \in 1..i : key[j] = key[i]})]
  IN  [r \in 1..n |-> seq[CHOOSE i \in 1..n : rank[i] = r]]

\* seq.slice(0, k)
Slice(seq, k) == SubSeq(seq, 1, Min(k, Len(seq)))

Includes(seq, x) == \E i \in 1..Len(seq) : seq[i] = x

\* new Set(seq).size
SetSize(seq) == Cardinality({seq[i] : i \in 1..Len(seq)})

RECURSIVE Join(_, _)
Join(parts, sep) ==
  IF Len(parts) = 0 THEN <<>>
  ELSE IF Len(parts) = 1 THEN parts[1]
  ELSE parts[1] \o sep \o Join(Tail(parts), sep)

\* ------------------------------------------------------------------------
\* pickGenresFromText
\* ------------------------------------------------------------------------

\* matches.set(g, (matches.get(g) || 0) + n) on the Map kept as the sequence
\* of its entries in insertion order.
MapAdd(entries, g, n) ==
  IF \E i \in 1..Len(entries) : entries[i].g = g
  THEN [i \in 1..Len(entries) |->
          IF entries[i].g = g
          THEN [g |-> g, n |-> entries[i].n + n] ELSE entries[i]]
  ELSE Append(entries, [g |-> g, n |-> n])

\* The loop over KEYMAP from entry i on: st.matches is the Map, st.lastIndex
\* the lastIndex of every KEYMAP pattern (they are shared by all calls).
RECURSIVE pickLoop(_, _, _)
pickLoop(text, i, st) ==
  IF i > Len(KEYMAP) THEN st
  ELSE LET m == StringMatch(text, KEYMAP[i].k, st.lastIndex[i])
           li == [st.lastIndex EXCEPT ![i] = m.lastIndex]
       IN  pickLoop(text, i + 1,
             [matches |-> IF m.n > 0
                          THEN MapAdd(st.matches, KEYMAP[i].g, m.n)
                          ELSE st.matches,
              lastIndex |-> li])

\* b[1] - a[1]: the entries are compared by their counts.
EntryCount(entries) == [i \in 1..Len(entries) |-> entries[i].n]

\* [guessed, lastIndex]: the genres by descending count, and the patterns'
\* lastIndex after the call.
pickGenresFromText(text, lastIndex) ==
  LET st == pickLoop(text, 1, [matches |-> <<>>, lastIndex |-> lastIndex])
      sorted == SortDescending(st.matches, EntryCount(st.matches))
  IN  [guessed |-> [i \in 1..Len(sorted) |-> sorted[i].g],
       lastIndex |-> st.lastIndex]

\* ------------------------------------------------------------------------
\* String conversions
\* ------------------------------------------------------------------------

\* White space that String.prototype.trim removes.
IsSpace(c) == c \in {9, 10, 11, 12, 13, 32, 160, 5760, 8232, 8233, 8239,
                     8287, 12288, 65279} \/ (c >= 8192 /\ c <= 8202)

RECURSIVE TrimStart(_)
TrimStart(str) ==
  IF Len(str) > 0 /\ IsSpace(Head(str)) THEN TrimStart(Tail(str)) ELSE str

RECURSIVE TrimEnd(_)
TrimEnd(str) ==
  IF Len(str) > 0 /\ IsSpace(str[Len(str)])
  THEN TrimEnd(SubSeq(str, 1, Len(str) - 1)) ELSE str

\* pitch.trim()
Trim(str) == TrimEnd(TrimStart(str))

\* The decimal digits of n >= 0.
RECURSIVE Digits(_)
Digits(n) ==
  IF n < 10 THEN <<48 + n>> ELSE Append(Digits(n \div 10), 48 + (n % 10))

\* Number::toString of an integer, as JSON.stringify writes it.
NumberToString(n) == IF n < 0 THEN <<45>> \o Digits(-n) ELSE Digits(n)

\* The value of a string of decimal digits.
RECURSIVE DigitsValue(_)
DigitsValue(str) ==
  IF Len(str) = 0 THEN 0
  ELSE DigitsValue(SubSeq(str, 1, Len(str) - 1)) * 10 + (str[Len(str)] - 48)

\* Number(budget) of the value of the number input: an optional sign and
\* decimal digits.
ToNumber(str) ==
  IF Head(str) = 45 THEN -DigitsValue(Tail(str)) ELSE DigitsValue(str)

Quote(str) == <<34>> \o str \o <<34>>

\* JSON.stringify(options): the properties in the order the object literal
\* of handleSubmit sets them; a property whose value is undefined is left
\* out.  An absent tone or budget hint is <<>>, a present one <<v>>.
JSONStringify(options) ==
  <<123, 34, 103, 101, 110, 114, 101, 115, 34, 58, 91>>      \* open brace, genres:[
  \o Join([i \in 1..Len(options.genres) |->
             Quote(GenreName(options.genres[i]))], <<44>>)
  \o <<93>>                                                  \* closing bracket
  \o (IF options.tone = <<>> THEN <<>>
      ELSE <<44, 34, 116, 111, 110, 101, 34, 58>>            \* ,tone:
           \o Quote(LabelName(options.tone[1])))
  \o <<44, 34, 114, 97, 116, 105, 110, 103, 34, 58>>         \* ,rating:
  \o Quote(LabelName(options.rating))
  \o (IF options.budget_hint_usd = <<>> THEN <<>>
      ELSE <<44, 34, 98, 117, 100, 103, 101, 116, 95, 104, 105, 110, 116,
             95, 117, 115, 100, 34, 58>>                     \* ,budget_hint_usd:
           \o NumberToString(options.budget_hint_usd[1]))
  \o <<125>>                                                 \* closing brace

\* ------------------------------------------------------------------------
\* mockScoreRequest
\* ------------------------------------------------------------------------

\* Math.min(0.4 + (Math.tanh((len - 400) / 600) + 1) * 0.25, 0.95) in units
\* of 1/Unit, rounded to the nearest unit, for the pitch lengths of the
\* model.
Base(len) ==
  CASE len = 0    -> 1210330
    [] len = 4    -> 1212982
    [] len = 10   -> 1216998
    [] len = 17   -> 1221742
    [] len = 20   -> 1223794
    [] len = 21   -> 1224481
    [] len = 1031 -> 2029472

\* x * num / den, exact for the operands of the function.
Scale(x, num, den) == (x * num) \div den

\* Math.max(0, Math.min(1, x))
Clamp01(x) == Max(0, Min(Unit, x))

\* The genre priors: {...}[g] || 0.
GenrePrior(g) ==
  CASE g = "Comedia"  -> Scale(Unit, 3, 100)
    [] g = "SciFi"    -> Scale(Unit, 2, 100)
    [] g = "Terror"   -> 0
    [] g = "Drama"    -> -Scale(Unit, 1, 100)
    [] g = "Romance"  -> -Scale(Unit, 2, 100)
    [] g = "Thriller" -> Scale(Unit, 1, 100)
    [] g = "Accion"   -> Scale(Unit, 1, 100)
    [] OTHER          -> 0

RECURSIVE SumPriors(_)
SumPriors(genres) ==
  IF Len(genres) = 0 THEN 0
  ELSE GenrePrior(Head(genres)) + SumPriors(Tail(genres))

\* A variant that keeps every guessed genre (no slice).
EffectiveGenres_noSlice(requested, guessed) ==
  IF Len(requested) # 0 THEN requested
  ELSE IF Len(guessed) # 0 THEN guessed
  ELSE <<"Drama">>

\* options.genres?.length ? options.genres
\*                        : (guessed.length ? guessed.slice(0, 2) : [Drama])
EffectiveGenres(requested, guessed) ==
  IF Len(requested) # 0 THEN requested
  ELSE IF Len(guessed) # 0 THEN Slice(guessed, 2)
  ELSE <<"Drama">>

EpicBudget == 40000000
SmallBudget == 8000000
BigPeerBudget == 30000000

\* options.budget_hint_usd ?? (/(space|...)/i.test(pitch) ? 40000000 : 8000000)
ResolveBudget(hint, pitch) ==
  IF hint # <<>> THEN hint[1]
  ELSE IF RegExpTest(pitch, EpicPattern) THEN EpicBudget ELSE SmallBudget

BudgetPeer(genres) ==
  IF Includes(genres, "SciFi") \/ Includes(genres, "Accion")
     \/ Includes(genres, "Fantasia")
  THEN BigPeerBudget ELSE SmallBudget

\* Math.max(0, Math.min(1, 1 - Math.abs(budget - peer) / Math.max(1, peer * 2)))
\* for budgets that are multiples of BudgetStep.
BudgetFeasibility(budget, peer) ==
  LET den == Max(1, peer * 2)
  IN  Clamp01(Unit - (Abs(budget - peer) \div BudgetStep)
                     * (Unit \div (den \div BudgetStep)))

\* Math.max(0, Math.min(1, ((h % 100) / 100) * 0.6 + (size >= 2 ? 0.2 : 0.05)))
Originality(h, genres) ==
  Clamp01(Scale(UnsignedRem(h, 100) * (Unit \div 100), 6, 10)
          + (IF SetSize(genres) >= 2 THEN Scale(Unit, 2, 10)
             ELSE Scale(Unit, 5, 100)))

\* Math.max(0, Math.min(1, 0.5 + ((h >> 5) % 50) / 150))
Clarity(h) == Clamp01(Unit \div 2 + ShiftRem(h, 5, 50) * (Unit \div 150))

\* Math.max(0, Math.min(1, 0.4 + (Comedia or Terror ? 0.1 : 0)
\*                              + ((h >> 7) % 30) / 200))
Audience(h, genres) ==
  Clamp01(Scale(Unit, 4, 10)
          + (IF Includes(genres, "Comedia") \/ Includes(genres, "Terror")
             THEN Scale(Unit, 1, 10) ELSE 0)
          + ShiftRem(h, 7, 30) * (Unit \div 200))

\* Math.max(0, 1 - budgetFeasibility * 0.7 - ((h >> 9) % 20) / 100)
ProductionRisk(h, budgetFeasibility) ==
  Max(0, Unit - Scale(budgetFeasibility, 7, 10)
              - ShiftRem(h, 9, 20) * (Unit \div 100))

\* A variant of the clamp without its upper limit.
ClampSuccess_noCeiling(x) == Max(Scale(Unit, 5, 100), x)

\* Math.max(0.05, Math.min(0.95, x))
ClampSuccess(x) == Max(Scale(Unit, 5, 100), Min(Scale(Unit, 95, 100), x))

\* +x.toFixed(3): x rounded to a multiple of 0.001.  An exact decimal tie is
\* rounded away from 0; in binary floating point the operand lies just off
\* the tie and either neighbour can result.
ToFixed3(x) ==
  LET q == Unit \div 1000
      r == (Abs(x) + (q \div 2)) \div q
  IN  IF x >= 0 THEN r * q ELSE -(r * q)

\* Math.abs(b.impact) - Math.abs(a.impact): the drivers are compared by the
\* magnitude of their impacts.
DriverMagnitude(ds) == [i \in 1..Len(ds) |-> Abs(ds[i].impact)]

\* The five drivers, sorted by descending absolute impact.  The first
\* driver's feature is genres.join("+"), kept as the label "genres".
Drivers(genreAdj, originality, audience, budgetFeasibility, productionRisk) ==
  LET unsorted == <<
    [feature |-> "genres", impact |-> ToFixed3(genreAdj)],
    [feature |-> "originality_index",
     impact |-> ToFixed3(Scale(originality - Unit \div 2, 15, 100))],
    [feature |-> "audience_appeal",
     impact |-> ToFixed3(Scale(audience - Unit \div 2, 12, 100))],
    [feature |-> "budget_vs_peers",
     impact |-> ToFixed3(Scale(budgetFeasibility - Unit \div 2, 18, 100))],
    [feature |-> "production_risk",
     impact |-> -ToFixed3(Scale(productionRisk - Unit \div 2, 15, 100))]
    >>
  IN  SortDescending(unsorted, DriverMagnitude(unsorted))

\* The pool of reference titles (roi in tenths).
pool == <<
  [title |-> "Ex Machina", year |-> 2014, roi |-> 37],
  [title |-> "Annihilation", year |-> 2018, roi |-> 14],
  [title |-> "Get Out", year |-> 2017, roi |-> 71],
  [title |-> "A Quiet Place", year |-> 2018, roi |-> 54],
  [title |-> "Her", year |-> 2013, roi |-> 29],
  [title |-> "Crazy Rich Asians", year |-> 2018, roi |-> 73],
  [title |-> "Parasite", year |-> 2019, roi |-> 200],
  [title |-> "Knives Out", year |-> 2019, roi |-> 42],
  [title |-> "Mad Max: Fury Road", year |-> 2015, roi |-> 27],
  [title |-> "The Conjuring", year |-> 2013, roi |-> 133] >>

\* +(0.6 + ((h >> (i + 1)) % 35) / 100).toFixed(2) for the 0-based pool
\* position i: a whole number of hundredths.
Similarity(h, i) == (60 + ShiftRem(h, i + 1, 35)) * (Unit \div 100)

\* b.similarity - a.similarity: the titles are compared by similarity.
MovieSimilarity(ms) == [i \in 1..Len(ms) |-> ms[i].similarity]

\* pool.map(...): every title with its similarity, in pool order.
Scored(h) ==
  [j \in 1..Len(pool) |->
     [title |-> pool[j].title, year |-> pool[j].year, roi |-> pool[j].roi,
      similarity |-> Similarity(h, j - 1)]]

MovieDissimilarity(ms) == [i \in 1..Len(ms) |-> -ms[i].similarity]

\* A variant whose comparator is a.similarity - b.similarity.
NearestMovies_ascending(h) ==
  LET scored == Scored(h)
  IN  Slice(SortDescending(scored, MovieDissimilarity(scored)), 5)

\* pool.map(...).sort((a, b) => b.similarity - a.similarity).slice(0, 5)
NearestMovies(h) ==
  LET scored == Scored(h)
  IN  Slice(SortDescending(scored, MovieSimilarity(scored)), 5)

\* What mockScoreRequest computes once its delay has elapsed: the response,
\* and the lastIndex of the KEYMAP patterns after the call.
mockScoreRequest(pitch, options, lastIndex) ==
  LET base == Base(Len(pitch))
      h == hashScore(pitch \o JSONStringify(options))
      picked == pickGenresFromText(pitch, lastIndex)
      genres == EffectiveGenres(options.genres, picked.guessed)
      genreAdj == SumPriors(genres)
      budget == ResolveBudget(options.budget_hint_usd, pitch)
      budgetPeer == BudgetPeer(genres)
      budgetFeasibility == BudgetFeasibility(budget, budgetPeer)
      originality == Originality(h, genres)
      clarity == Clarity(h)
      audience == Audience(h, genres)
      productionRisk == ProductionRisk(h, budgetFeasibility)
      p_success ==
        ClampSuccess(base + genreAdj
                     + Scale(originality - Unit \div 2, 15, 100)
                     + Scale(audience - Unit \div 2, 12, 100)
                     + Scale(budgetFeasibility - Unit \div 2, 18, 100)
                     - Scale(productionRisk - Unit \div 2, 15, 100))
  IN  [out |->
         [p_success |-> p_success,
          radar |-> [originality |-> originality,
                     clarity |-> clarity,
                     audience_appeal |-> audience,
                     budget_feasibility |-> budgetFeasibility,
                     production_risk |-> productionRisk],
          drivers |-> Drivers(genreAdj, originality, audience,
                              budgetFeasibility, productionRisk),
          nearest_movies |-> NearestMovies(h),
          meta |-> [genreGuess |-> genres]],
       lastIndex |-> picked.lastIndex]

\* ------------------------------------------------------------------------
\* Inputs of the model
\* ------------------------------------------------------------------------

RECURSIVE Repeat(_, _)
Repeat(str, n) == IF n = 0 THEN <<>> ELSE str \o Repeat(str, n - 1)

\* The pitch every state starts from: useState("").
EmptyPitch == <<>>
\* Dos amigos (no keyword)
PlainPitch == <<68, 111, 115, 32, 97, 109, 105, 103, 111, 115>>
\* Un robot sin amor
RobotPitch == <<85, 110, 32, 114, 111, 98, 111, 116, 32, 115, 105, 110, 32,
                97, 109, 111, 114>>
\* GUERRA, guerra y amor
WarPitch == <<71, 85, 69, 82, 82, 65, 44, 32, 103, 117, 101, 114, 114, 97,
              32, 121, 32, 97, 109, 111, 114>>
\* Epic
EpicPitch == <<69, 112, 105, 99>>
\* Una pareja, un viaje
TripPitch == <<85, 110, 97, 32, 112, 97, 114, 101, 106, 97, 44, 32, 117,
               110, 32, 118, 105, 97, 106, 101>>
\* Un robot sin amor. followed by 23 times the sentence
\* Dos amigos caminan bajo el sol de la tarde. (1031 code units)
LongPitch ==
  <<85, 110, 32, 114, 111, 98, 111, 116, 32, 115, 105, 110, 32, 97, 109,
    111, 114, 46, 32>>
  \o Repeat(<<68, 111, 115, 32, 97, 109, 105, 103, 111, 115, 32, 99, 97,
              109, 105, 110, 97, 110, 32, 98, 97, 106, 111, 32, 101, 108,
              32, 115, 111, 108, 32, 100, 101, 32, 108, 97, 32, 116, 97,
              114, 100, 101, 46, 32>>, 23)
\* nave followed by a space, as typed into the textarea
TypedPitch == <<110, 97, 118, 101, 32>>
\* a single space
SpacePitch == <<32>>

\* The requests mockScoreRequest is called with.
EnginePitches == {EmptyPitch, PlainPitch, RobotPitch, WarPitch, EpicPitch,
                  TripPitch}
EngineGenres == {<<>>, <<"Drama">>, <<"Comedia", "Terror">>,
                 <<"SciFi", "Accion">>, <<"Romance", "Drama">>}
EngineTones == {<<>>, <<"epico">>}
EngineHints == {<<>>, <<0>>, <<8000000>>, <<30000000>>, <<100000000>>,
                <<-100000>>}

LongRequests ==
  [pitch : {LongPitch},
   options : [genres : {<<>>, <<"Comedia", "Terror">>}, tone : {<<>>},
              rating : {"PG-13", "R"},
              budget_hint_usd : {<<>>, <<8000000>>, <<30000000>>}]]

Requests ==
  [pitch : EnginePitches,
   options : [genres : EngineGenres, tone : EngineTones,
              rating : {"PG-13", "R"}, budget_hint_usd : EngineHints]]
  \cup LongRequests

\* The requests of the runs that call the function more than once.
RepeatRequests ==
  [pitch : {RobotPitch, WarPitch, TripPitch},
   options : [genres : {<<>>, <<"Drama">>}, tone : {<<>>},
              rating : {"PG-13"}, budget_hint_usd : {<<>>, <<30000000>>}]]

\* What the user can put into the form.
FormPitches == {EmptyPitch, SpacePitch, TypedPitch}
FormGenres == {"Drama"}
FormTones == {"", "epico"}
FormRatings == {"PG-13", "R"}
\* the empty input and 30000000
FormBudgets == {<<>>, <<51, 48, 48, 48, 48, 48, 48, 48>>}

\* Calls of the function in one run of the repeated-call specification.
MaxCalls == 3
\* Requests that may wait for their delay at once when submit events reach
\* the form without passing the button.
MaxInFlight == 2

\* ------------------------------------------------------------------------
\* State
\* ------------------------------------------------------------------------

VARIABLES
  pitch,      \* useState(""): the textarea's value
  genres,     \* useState([]): the selected genres, in click order
  tone,       \* useState(""): the tone select
  rating,     \* useState("PG-13"): the rating select
  budget,     \* useState(""): the number input's value, a string
  loading,    \* useState(false)
  res,        \* useState(null): <<>> or <<response>>
  inflight,   \* the calls of mockScoreRequest whose delay has not elapsed,
              \* oldest first, each with the pitch and options it was given
  lastIndex,  \* the lastIndex of each KEYMAP pattern
  req,        \* the request of a direct call of mockScoreRequest, <<>> if none
  out,        \* that call's response, <<>> until it returns
  first,      \* the first direct call's request and response, <<>> if none
  calls       \* the number of direct calls made

vars == <<pitch, genres, tone, rating, budget, loading, res, inflight,
          lastIndex, req, out, first, calls>>

formVars == <<pitch, genres, tone, rating, budget>>
appVars == <<pitch, genres, tone, rating, budget, loading, res, inflight>>
callVars == <<req, out, first, calls>>

\* Every KEYMAP pattern starts with lastIndex 0.
InitialLastIndex == [i \in 1..Len(KEYMAP) |-> 0]

\* The state of App after its first render.
InitApp ==
  /\ pitch = <<>>
  /\ genres = <<>>
  /\ tone = ""
  /\ rating = "PG-13"
  /\ budget = <<>>
  /\ loading = FALSE
  /\ res = <<>>
  /\ inflight = <<>>
  /\ lastIndex = InitialLastIndex

NoCall ==
  /\ req = <<>>
  /\ out = <<>>
  /\ first = <<>>
  /\ calls = 0

Init == InitApp /\ NoCall

\* ------------------------------------------------------------------------
\* App: the form
\* ------------------------------------------------------------------------

\* onChange of the textarea
setPitch ==
  /\ \E v \in FormPitches : v # pitch /\ pitch' = v
  /\ UNCHANGED <<genres, tone, rating, budget, loading, res, inflight,
                 lastIndex, callVars>>

\* prev.filter(x => x !== g)
Without(seq, g) == SelectSeq(seq, LAMBDA x : x # g)

\* onClick of a genre button
toggleGenre ==
  /\ \E g \in FormGenres :
       genres' = IF Includes(genres, g) THEN Without(genres, g)
                 ELSE Append(genres, g)
  /\ UNCHANGED <<pitch, tone, rating, budget, loading, res, inflight,
                 lastIndex, callVars>>

\* onChange of the tone select
setTone ==
  /\ \E v \in FormTones : v # tone /\ tone' = v
  /\ UNCHANGED <<pitch, genres, rating, budget, loading, res, inflight,
                 lastIndex, callVars>>

\* onChange of the rating select
setRating ==
  /\ \E v \in FormRatings : v # rating /\ rating' = v
  /\ UNCHANGED <<pitch, genres, tone, budget, loading, res, inflight,
                 lastIndex, callVars>>

\* onChange of the budget input
setBudget ==
  /\ \E v \in FormBudgets : v # budget /\ budget' = v
  /\ UNCHANGED <<pitch, genres, tone, rating, loading, res, inflight,
                 lastIndex, callVars>>

\* disabled={!pitch.trim() || loading} of the submit button
SubmitDisabled == Trim(pitch) = <<>> \/ loading

\* The options object handleSubmit builds from the form.
FormOptions ==
  [genres |-> genres,
   tone |-> IF tone # "" THEN <<tone>> ELSE <<>>,
   rating |-> rating,
   budget_hint_usd |-> IF budget # <<>> THEN <<ToNumber(budget)>> ELSE <<>>]

\* handleSubmit up to its await: setLoading(true), and mockScoreRequest is
\* called with pitch.trim() and the options and starts its delay.
startSubmit ==
  /\ loading' = TRUE
  /\ inflight' = Append(inflight, [pitch |-> Trim(pitch),
                                   options |-> FormOptions])
  /\ UNCHANGED <<formVars, res, lastIndex, callVars>>

\* A submit event that reaches the form's onSubmit without passing the
\* button (form.requestSubmit(), a dispatched event): the textarea's
\* required attribute is all that is checked.
handleSubmitDirect ==
  /\ pitch # <<>>
  /\ Len(inflight) < MaxInFlight
  /\ startSubmit

\* A variant whose button is disabled by an empty pitch only.
handleSubmit_ignoresLoading ==
  /\ Trim(pitch) # <<>>
  /\ startSubmit

\* A submit event from the submit button, which the browser delivers only
\* while the button is enabled.
handleSubmit ==
  /\ ~SubmitDisabled
  /\ startSubmit

\* A variant of the continuation that computes the response from the form
\* as it is when the delay elapses.
resolveSubmit_readsForm ==
  /\ inflight # <<>>
  /\ LET r == mockScoreRequest(Trim(pitch), FormOptions, lastIndex)
     IN  /\ res' = <<r.out>>
         /\ lastIndex' = r.lastIndex
  /\ loading' = FALSE
  /\ inflight' = Tail(inflight)
  /\ UNCHANGED <<formVars, callVars>>

\* The delay of the oldest pending call elapses (timers of equal delay fire
\* in the order they were set): mockScoreRequest computes its response from
\* the arguments it was called with, and handleSubmit resumes with
\* setRes(out) and setLoading(false).
resolveSubmit ==
  /\ inflight # <<>>
  /\ LET call == Head(inflight)
         r == mockScoreRequest(call.pitch, call.options, lastIndex)
     IN  /\ res' = <<r.out>>
         /\ lastIndex' = r.lastIndex
  /\ loading' = FALSE
  /\ inflight' = Tail(inflight)
  /\ UNCHANGED <<formVars, callVars>>

Next ==
  \/ setPitch
  \/ toggleGenre
  \/ setTone
  \/ setRating
  \/ setBudget
  \/ handleSubmit
  \/ resolveSubmit

\* The App as the user drives it.
Spec == Init /\ [][Next]_vars

\* The steps of resolveSubmit, told by what they do to the queue of pending
\* calls: no other action removes the head of inflight, and resolveSubmit is
\* enabled exactly when inflight is not empty.
TimerFires == inflight # <<>> /\ inflight' = Tail(inflight)

\* The 600 ms timer of a pending call always fires: setTimeout runs its
\* callback once the delay has elapsed.  Under Spec, WF_inflight(TimerFires)
\* is weak fairness of resolveSubmit.
FairSpec == Spec /\ WF_inflight(TimerFires)

NextDirect ==
  \/ setPitch
  \/ toggleGenre
  \/ handleSubmitDirect
  \/ resolveSubmit

\* The App when submit events may reach the form while a call is pending.
SpecDirect == Init /\ [][NextDirect]_vars

\* ------------------------------------------------------------------------
\* mockScoreRequest called directly
\* ------------------------------------------------------------------------

\* mockScoreRequest(req.pitch, req.options) runs to its return.
invoke ==
  /\ req # <<>>
  /\ out = <<>>
  /\ LET r == mockScoreRequest(req[1].pitch, req[1].options, lastIndex)
     IN  /\ out' = <<r.out>>
         /\ lastIndex' = r.lastIndex
         /\ first' = IF first = <<>>
                     THEN <<[req |-> req[1], out |-> r.out]>> ELSE first
  /\ calls' = calls + 1
  /\ UNCHANGED <<appVars, req>>

\* The next call, with any request.
callAgain ==
  /\ out # <<>>
  /\ calls < MaxCalls
  /\ \E r \in RepeatRequests : req' = <<r>>
  /\ out' = <<>>
  /\ UNCHANGED <<appVars, lastIndex, first, calls>>

InitEngine ==
  /\ InitApp
  /\ req \in {<<r>> : r \in Requests}
  /\ out = <<>>
  /\ first = <<>>
  /\ calls = 0

\* One call of mockScoreRequest for every request.
SpecEngine == InitEngine /\ [][invoke]_vars

InitRepeat ==
  /\ InitApp
  /\ req \in {<<r>> : r \in RepeatRequests}
  /\ out = <<>>
  /\ first = <<>>
  /\ calls = 0

NextRepeat ==
  \/ invoke
  \/ callAgain

\* Up to MaxCalls calls of mockScoreRequest, one after the other.
SpecRepeat == InitRepeat /\ [][NextRepeat]_vars

\* ------------------------------------------------------------------------
\* Properties
\* ------------------------------------------------------------------------

Percent(n) == Scale(Unit, n, 100)

\* The content hash of the direct call's request.
RequestHash == hashScore(req[1].pitch \o JSONStringify(req[1].options))

\* C1: each of the five radar axes of every response lies in [0, 1].
C1_RadarInUnitInterval ==
  out # <<>> =>
    LET radar == out[1].radar
    IN  /\ 0 <= radar.originality /\ radar.originality <= Unit
        /\ 0 <= radar.clarity /\ radar.clarity <= Unit
        /\ 0 <= radar.audience_appeal /\ radar.audience_appeal <= Unit
        /\ 0 <= radar.budget_feasibility /\ radar.budget_feasibility <= Unit
        /\ 0 <= radar.production_risk /\ radar.production_risk <= Unit

\* C2: every entry of nearest_movies has a similarity in [0.6, 0.95].
C2_SimilarityInRange ==
  out # <<>> =>
    \A k \in 1..Len(out[1].nearest_movies) :
      /\ Percent(60) <= out[1].nearest_movies[k].similarity
      /\ out[1].nearest_movies[k].similarity <= Percent(95)

\* C3: when a second request was issued before the first one's delay has
\* elapsed, the first request's response is never written to res.
C3_StaleResponseDropped ==
  [][(Len(inflight) >= 2 /\ inflight' = Tail(inflight)) => res' = res]_vars

\* C4: a negative budget hint is treated as absent: the response has the
\* budget_feasibility and production_risk of the same request without hint.
C4_NegativeHintAbsent ==
  (out # <<>> /\ req[1].options.budget_hint_usd # <<>>
     /\ req[1].options.budget_hint_usd[1] < 0) =>
    LET absent == [req[1].options EXCEPT !.budget_hint_usd = <<>>]
        ref == mockScoreRequest(req[1].pitch, absent, InitialLastIndex).out
    IN  /\ out[1].radar.budget_feasibility = ref.radar.budget_feasibility
        /\ out[1].radar.production_risk = ref.radar.production_risk

\* C5: a call with the request of the first call returns the first call's
\* response, whatever calls were made in between.
C5_SameRequestSameResponse ==
  (out # <<>> /\ first # <<>> /\ first[1].req = req[1]) =>
    out[1] = first[1].out

\* A later call, with the first call's request, has returned.
C5_Witness ==
  /\ out # <<>>
  /\ calls >= 3
  /\ first[1].req = req[1]
  /\ Len(out[1].meta.genreGuess) = 2

\* C6: p_success of every response lies in [0.05, 0.95].
C6_SuccessInRange ==
  out # <<>> =>
    /\ Percent(5) <= out[1].p_success
    /\ out[1].p_success <= Percent(95)

\* A response of a request the form can submit whose score was cut to 0.95.
C6_Witness ==
  /\ out # <<>>
  /\ out[1].p_success = Percent(95)
  /\ req[1].pitch # <<>>
  /\ req[1].options.budget_hint_usd \in {<<>>, <<30000000>>}

\* C7: genreGuess is the request's genres when there are any; otherwise the
\* first two genres pickGenresFromText infers (the only one when there is
\* one); otherwise Drama alone.  It is never empty.
C7_EffectiveGenres ==
  out # <<>> =>
    LET requested == req[1].options.genres
        guessed == pickGenresFromText(req[1].pitch, InitialLastIndex).guessed
        genreGuess == out[1].meta.genreGuess
    IN  /\ Len(genreGuess) >= 1
        /\ Len(requested) > 0 => genreGuess = requested
        /\ (Len(requested) = 0 /\ Len(guessed) > 0) =>
             /\ Len(genreGuess) = Min(2, Len(guessed))
             /\ \A k \in 1..Len(genreGuess) : genreGuess[k] = guessed[k]
        /\ (Len(requested) = 0 /\ Len(guessed) = 0) =>
             genreGuess = <<"Drama">>

\* No genre requested and three genres inferred: two are kept.
C7_Witness ==
  /\ out # <<>>
  /\ req[1].options.genres = <<>>
  /\ Len(pickGenresFromText(req[1].pitch, InitialLastIndex).guessed) >= 3
  /\ Len(out[1].meta.genreGuess) = 2

\* C8: at most one call of mockScoreRequest is pending, and while one is
\* pending the submit button is disabled.
C8_OneInFlight ==
  /\ Len(inflight) <= 1
  /\ inflight # <<>> => SubmitDisabled

\* A second submission is pending, after a first one has completed, and the
\* form has been edited since it was submitted.
C8_Witness ==
  /\ Len(inflight) = 1
  /\ res # <<>>
  /\ inflight[1] # [pitch |-> Trim(pitch), options |-> FormOptions]

\* The position in the pool of the title of a nearest_movies entry.
PoolIndex(m) == CHOOSE j \in 1..Len(pool) : pool[j].title = m.title

\* C9: nearest_movies has exactly 5 entries, each a pool title with its
\* similarity, none repeated, in non-increasing order of similarity, equal
\* similarities in pool order, and no title left out is more similar than
\* one included.
C9_NearestMovies ==
  out # <<>> =>
    LET nm == out[1].nearest_movies
        h == RequestHash
        sim == [j \in 1..Len(pool) |-> Similarity(h, j - 1)]
        chosen == {PoolIndex(nm[k]) : k \in 1..Len(nm)}
    IN  /\ Len(nm) = 5
        /\ \A k \in 1..Len(nm) :
             /\ \E j \in 1..Len(pool) : pool[j].title = nm[k].title
             /\ nm[k].similarity = sim[PoolIndex(nm[k])]
        /\ \A k, l \in 1..Len(nm) :
             k < l =>
               /\ nm[k].title # nm[l].title
               /\ nm[k].similarity >= nm[l].similarity
               /\ nm[k].similarity = nm[l].similarity =>
                    PoolIndex(nm[k]) < PoolIndex(nm[l])
        /\ \A j \in (1..Len(pool)) \ chosen :
             \A k \in 1..Len(nm) : sim[j] <= nm[k].similarity

\* Two of the five entries are equally similar, and a title left out is as
\* similar as the last one included.
C9_Witness ==
  /\ out # <<>>
  /\ LET nm == out[1].nearest_movies
         h == RequestHash
     IN  /\ \E k \in 1..4 : nm[k].similarity = nm[k + 1].similarity
         /\ \E j \in 1..Len(pool) :
              /\ Similarity(h, j - 1) = nm[5].similarity
              /\ \A k \in 1..5 : nm[k].title # pool[j].title

\* C10: a submission captures the trimmed pitch and the options of the form,
\* edits made while it is pending leave them alone, the response stored
\* when loading falls is the response to them, and loading always falls.
C10_SubmissionCompletes ==
  /\ [][(~loading /\ loading') =>
          inflight' = <<[pitch |-> Trim(pitch), options |-> FormOptions]>>]_vars
  /\ [][(loading /\ loading') => inflight' = inflight]_vars
  /\ [][(loading /\ ~loading') =>
          res' = <<mockScoreRequest(inflight[1].pitch, inflight[1].options,
                                    lastIndex).out>>]_vars
  /\ (loading ~> ~loading)

\* A response is on display that is not the response to the form as it is
\* now, and no submission is pending.
C10_Witness ==
  /\ ~loading
  /\ res # <<>>
  /\ Trim(pitch) # <<>>
  /\ res[1] # mockScoreRequest(Trim(pitch), FormOptions, lastIndex).out

=============================================================================
